---- MODULE Spec2Model ----
(***************************************************************************)
(* serializeHTMLFromNodes (packages/serializers/html): the conversion of a *)
(* Slate node tree into an HTML string through a plugin registry.          *)
(*                                                                         *)
(* A JavaScript string is modelled as a sequence of atoms.  An atom is one *)
(* character ("%", "<", "2", ...) or a word of unreserved characters that  *)
(* no operation of the serializer ever splits ("div", "data-testid", ...). *)
(* encodeURIComponent, decodeURIComponent and the three regular            *)
(* expressions are computed atom by atom, as the source computes them      *)
(* character by character.                                                 *)
(***************************************************************************)
EXTENDS Integers, Sequences, FiniteSets, TLC

VARIABLES
    pc,                   \* "start", then "done" once the function has returned
    plugins,              \* the plugin registry, in registration order
    nodes,                \* the nodes handed to serializeHTMLFromNodes / getLeaf
    stripDataAttributes,  \* options of the outermost call
    stripWhitespace,
    preserveClassNames,
    result,               \* what serializeHTMLFromNodes returned
    calls,                \* every call of serializeHTMLFromNodes it made
    renders,              \* every element it visited, with the rendering plugins
    parts,                \* what it returned for each top-level node alone;
                          \* under SpecLeaf, getLeaf's accumulator after each plugin
    leafResult,           \* what getLeaf returned
    html,                 \* the argument of stripClassNames
    filteredHtml          \* what stripClassNames returned

vars == <<pc, plugins, nodes, stripDataAttributes, stripWhitespace,
          preserveClassNames, result, calls, renders, parts, leafResult, html,
          filteredHtml>>

(***************************************************************************)
(* Strings                                                                 *)
(***************************************************************************)
RECURSIVE Concat(_)
\* Array.prototype.join('') over a sequence of strings.
Concat(ss) ==
    IF ss = <<>> THEN <<>> ELSE Head(ss) \o Concat(Tail(ss))

RECURSIVE JoinWith(_, _)
\* Array.prototype.join(sep).
JoinWith(ss, sep) ==
    IF ss = <<>> THEN <<>>
    ELSE IF Len(ss) = 1 THEN ss[1]
    ELSE ss[1] \o sep \o JoinWith(Tail(ss), sep)

\* s.slice(i - 1): the suffix of s that starts at position i.
Drop(s, i) == SubSeq(s, i, Len(s))

\* s.startsWith(p)
StartsWith(s, p) == Len(p) <= Len(s) /\ SubSeq(s, 1, Len(p)) = p

\* Position of the first atom of s at or after i that is in set S; 0 when none.
FirstIn(s, i, S) ==
    LET hits == {k \in i..Len(s) : s[k] \in S}
    IN  IF hits = {} THEN 0 ELSE CHOOSE k \in hits : \A j \in hits : k <= j

(***************************************************************************)
(* Percent encoding.  The hexadecimal digits of the model are the digits   *)
(* of the escapes below; the byte table is closed under them.              *)
(***************************************************************************)
HexAtoms == {"0", "2", "3", "5", "A", "a", "C", "D", "E", "F"}

HexVal(a) ==
    CASE a = "0" -> 0  [] a = "2" -> 2  [] a = "3" -> 3  [] a = "5" -> 5
      [] a \in {"A", "a"} -> 10 [] a = "C" -> 12 [] a = "D" -> 13
      [] a = "E" -> 14 [] a = "F" -> 15

\* encodeURIComponent writes upper-case hexadecimal digits.
HexChar(v) ==
    CASE v = 0 -> "0" [] v = 2 -> "2" [] v = 3 -> "3" [] v = 5 -> "5"
      [] v = 10 -> "A" [] v = 12 -> "C" [] v = 13 -> "D" [] v = 14 -> "E"
      [] v = 15 -> "F"

\* The ASCII characters whose two hexadecimal digits are digits of the model.
AsciiCodes == {16 * x + y : x \in {0, 2, 3, 5}, y \in {0, 2, 3, 5, 10, 12, 13, 14, 15}}

Chr(c) ==
    CASE c = 0 -> "U+0000" [] c = 2 -> "U+0002" [] c = 3 -> "U+0003"
      [] c = 5 -> "U+0005" [] c = 10 -> "\n" [] c = 12 -> "\f" [] c = 13 -> "\r"
      [] c = 14 -> "U+000E" [] c = 15 -> "U+000F"
      [] c = 32 -> " " [] c = 34 -> "\"" [] c = 35 -> "#" [] c = 37 -> "%"
      [] c = 42 -> "*" [] c = 44 -> "," [] c = 45 -> "-" [] c = 46 -> "."
      [] c = 47 -> "/"
      [] c = 48 -> "0" [] c = 50 -> "2" [] c = 51 -> "3" [] c = 53 -> "5"
      [] c = 58 -> ":" [] c = 60 -> "<" [] c = 61 -> "=" [] c = 62 -> ">"
      [] c = 63 -> "?"
      [] c = 80 -> "P" [] c = 82 -> "R" [] c = 83 -> "S" [] c = 85 -> "U"
      [] c = 90 -> "Z" [] c = 92 -> "\\" [] c = 93 -> "]" [] c = 94 -> "^"
      [] c = 95 -> "_"

\* The characters encodeURIComponent escapes: all but A-Z a-z 0-9 - _ . ! ~ * ' ( )
ReservedCodes == AsciiCodes \ {42, 45, 46, 48, 50, 51, 53, 80, 82, 83, 85, 90, 95}

ReservedAtoms == {Chr(c) : c \in ReservedCodes}

Ord(a) == CHOOSE c \in ReservedCodes : Chr(c) = a

\* A word that begins with a hexadecimal digit: after "%" the model does not
\* look inside it, and says so instead of guessing.
HexStartWords ==
    {"div", "data-slate-node", "data-slate-leaf", "data-slate-type",
     "data-testid", "element", "class", "bold", "em", "foo", "align", "bar"}

\* What a decoding the model cannot compute leaves in the string.
Unmodelled == "UNMODELLED"

EncodeAtom(a) ==
    IF a \in ReservedAtoms
    THEN <<"%", HexChar(Ord(a) \div 16), HexChar(Ord(a) % 16)>>
    ELSE <<a>>

RECURSIVE encodeURIComponent(_)
encodeURIComponent(s) ==
    IF s = <<>> THEN <<>>
    ELSE EncodeAtom(Head(s)) \o encodeURIComponent(Tail(s))

RECURSIVE decodeURIComponent(_)
\* [ok |-> FALSE] is the URIError the built-in throws on a malformed escape.
decodeURIComponent(s) ==
    IF s = <<>> THEN [ok |-> TRUE, v |-> <<>>]
    ELSE IF Head(s) # "%"
    THEN LET rest == decodeURIComponent(Tail(s))
         IN  IF rest.ok THEN [ok |-> TRUE, v |-> <<Head(s)>> \o rest.v] ELSE rest
    ELSE IF Len(s) >= 2 /\ s[2] \in HexStartWords
    THEN [ok |-> TRUE, v |-> <<Unmodelled>>]
    ELSE IF Len(s) >= 3 /\ s[2] \in HexAtoms /\ s[3] \in HexStartWords
    THEN [ok |-> TRUE, v |-> <<Unmodelled>>]
    ELSE IF Len(s) < 3 \/ s[2] \notin HexAtoms \/ s[3] \notin HexAtoms
    THEN [ok |-> FALSE, v |-> <<>>]
    ELSE LET code == 16 * HexVal(s[2]) + HexVal(s[3])
         IN  IF code >= 128
             THEN \* a byte of a multi-byte character: an error unless
                  \* continuation bytes (%8x..%Bx) follow
                  IF code >= 192 /\ Len(s) >= 5 /\ s[4] = "%" /\ s[5] \in {"A", "a"}
                  THEN [ok |-> TRUE, v |-> <<Unmodelled>>]
                  ELSE [ok |-> FALSE, v |-> <<>>]
             ELSE LET rest == decodeURIComponent(Drop(s, 4))
                  IN  IF rest.ok
                      THEN [ok |-> TRUE, v |-> <<Chr(code)>> \o rest.v]
                      ELSE rest

\* const isEncoded = (str = '') => { try { return str !== decode(str) } catch { return false } }
isEncoded(str) ==
    LET d == decodeURIComponent(str)
    IN  d.ok /\ str # d.v

(***************************************************************************)
(* The string clean-up passes                                              *)
(***************************************************************************)
\* rawHtml.replace(/(\r\n|\n|\r|\t)/gm, '')
trimWhitespace(rawHtml) ==
    SelectSeq(rawHtml, LAMBDA a : a \notin {"\n", "\r", "\t"})

\* Length of the match of / NAME="[^"]+"/ at the start of s, NAME in names;
\* 0 when the pattern does not match there.
AttrMatchLen(s, names) ==
    IF Len(s) >= 6 /\ s[1] = " " /\ s[2] \in names /\ s[3] = "=" /\ s[4] = "\""
       /\ s[5] # "\""
    THEN FirstIn(s, 6, {"\""})
    ELSE 0

RECURSIVE RemoveAttrs(_, _)
\* s.replace(/ NAME="[^"]+"/gm, '')
RemoveAttrs(s, names) ==
    IF s = <<>> THEN <<>>
    ELSE LET n == AttrMatchLen(s, names)
         IN  IF n > 0 THEN RemoveAttrs(Drop(s, n + 1), names)
             ELSE <<Head(s)>> \o RemoveAttrs(Tail(s), names)

SlateDataNames == {"data-slate-node", "data-slate-type", "data-slate-leaf"}

stripSlateDataAttributes(rawHtml) ==
    RemoveAttrs(RemoveAttrs(rawHtml, SlateDataNames), {"data-testid"})

\* \s of a JavaScript regular expression, among the atoms of the model
SpaceAtoms == {" ", "\n", "\r", "\t", "\f"}

\* The first prefix of cns (the alternatives of the regular expression, in
\* order) that s starts with, as a one-element sequence; <<>> when none.
RECURSIVE FirstAlternative(_, _)
FirstAlternative(s, cns) ==
    IF cns = <<>> THEN <<>>
    ELSE IF StartsWith(s, Head(cns)) THEN <<Head(cns)>>
    ELSE FirstAlternative(s, Tail(cns))

RECURSIVE PreserveMatches(_, _)
\* item.match(new RegExp(cns.map(cn => `${cn}[^"\\s]*`).join('|'), 'g')) ?? []
PreserveMatches(item, cns) ==
    IF item = <<>> THEN <<>>
    ELSE LET alt == FirstAlternative(item, cns)
         IN  IF alt = <<>> THEN PreserveMatches(Tail(item), cns)
             ELSE LET stop == FirstIn(item, Len(alt[1]) + 1, SpaceAtoms \cup {"\""})
                      end  == IF stop = 0 THEN Len(item) ELSE stop - 1
                  IN  <<SubSeq(item, 1, end)>>
                        \o PreserveMatches(Drop(item, end + 1), cns)

\* Length of the match of /class="[^"]*"/ at the start of s; 0 when none.
ClassMatchLen(s) ==
    IF Len(s) >= 4 /\ s[1] = "class" /\ s[2] = "=" /\ s[3] = "\""
    THEN FirstIn(s, 4, {"\""})
    ELSE 0

RECURSIVE FilterClassItems(_, _)
\* html.split(/(class="[^"]*")/g) and the forEach over the pieces: the pieces
\* between class attributes are copied, each class attribute is filtered.
FilterClassItems(h, cns) ==
    IF h = <<>> THEN <<>>
    ELSE LET n == ClassMatchLen(h)
         IN  IF n = 0 THEN <<Head(h)>> \o FilterClassItems(Tail(h), cns)
             ELSE LET slateClassNames == PreserveMatches(SubSeq(h, 1, n), cns)
                  IN  (IF slateClassNames # <<>>
                       THEN <<"class", "=", "\"">>
                              \o JoinWith(slateClassNames, <<" ">>) \o <<"\"">>
                       ELSE <<>>)
                        \o FilterClassItems(Drop(h, n + 1), cns)

\* An option the caller left out (undefined), or the list it gave.
Undefined == [given |-> FALSE, list |-> <<>>]

Given(list) == [given |-> TRUE, list |-> list]

\* { preserveClassNames = ['slate-'] }: the default applies when undefined
stripClassNames(h, preserve) ==
    FilterClassItems(h, IF preserve.given THEN preserve.list ELSE <<<<"slate-">>>>)

(***************************************************************************)
(* Nodes and plugins                                                       *)
(***************************************************************************)
\* A Slate text node; marks are the leaf's formatting flags (bold, italic).
TextNode(text, marks) ==
    [kind |-> "text", text |-> text, marks |-> marks, type |-> "",
     children |-> <<>>]

\* A Slate element; type "" stands for a missing (falsy) type.
ElementNode(type, children) ==
    [kind |-> "element", text |-> <<>>, marks |-> {}, type |-> type,
     children |-> children]

\* Text.isText(node)
IsText(node) == node.kind = "text"

\* A PlatePlugin, by the fields the serializer reads:
\*   element      the tag its serialize.element / renderElement renders, "" when
\*                it has neither
\*   attrs        further attributes its element markup carries
\*   classes      the value of the class attribute of its markup
\*   deserialize  whether it has a deserialize; owns = the types that
\*                deserialize(editor).element lists
\*   leaf         the mark its serialize.leaf / renderLeaf decorates, "" when it
\*                has neither; leafTag the tag it wraps a marked leaf in
\*   override     the className its overrideProps sets, <<>> when it has none
Plugin(key, element, attrs, classes, deserialize, owns, leaf, leafTag, override) ==
    [key |-> key, element |-> element, attrs |-> attrs, classes |-> classes,
     deserialize |-> deserialize, owns |-> owns, leaf |-> leaf,
     leafTag |-> leafTag, override |-> override]

Attr(name, value) == <<" ", name, "=", "\"">> \o value \o <<"\"">>

Paragraph ==
    Plugin("paragraph", "p", <<>>, <<"slate-", "p", " ", "foo">>, TRUE, {"p"},
           "", "", <<>>)

Section ==
    Plugin("section", "section", Attr("data-testid", <<"x">>),
           <<"slate-", "section">>, TRUE, {"p"}, "", "", <<>>)

Cell ==
    Plugin("cell", "td", Attr("width", <<"5", "0", "%">>), <<"slate-", "td">>,
           TRUE, {"td"}, "", "", <<>>)

Void ==
    Plugin("void", "hr", <<>>, <<>>, FALSE, {}, "", "", <<>>)

Bold ==
    Plugin("bold", "", <<>>, <<"slate-", "bold", " ", "foo">>, FALSE, {},
           "bold", "strong", <<>>)

Italic ==
    Plugin("italic", "", <<>>, <<>>, FALSE, {}, "italic", "em", <<>>)

Align ==
    Plugin("align", "", <<>>, <<>>, FALSE, {}, "", "", <<"slate-", "align">>)

Catalog == {Paragraph, Section, Cell, Void, Bold, Italic, Align}

\* plugin.serialize?.element || plugin.renderElement
HasElement(plugin) == plugin.element # ""

\* plugin.serialize?.leaf || plugin.renderLeaf
HasLeaf(plugin) == plugin.leaf # ""

\* plugin.deserialize?.(editor).element?.some(item => item.type === String(type))
OwnsType(plugin, type) == plugin.deserialize /\ type \in plugin.owns

(***************************************************************************)
(* The override pipeline and the markup renderer (outside this package)    *)
(***************************************************************************)
RECURSIVE Overriders(_)
\* plugins.flatMap(p => castArray(p.overrideProps).flatMap(cb => cb?.(editor) ?? []))
Overriders(ps) ==
    IF ps = <<>> THEN <<>>
    ELSE (IF Head(ps).override # <<>> THEN <<Head(ps).override>> ELSE <<>>)
           \o Overriders(Tail(ps))

RECURSIVE pipeOverrideProps(_, _)
\* Each overrider receives the props of the step before it and returns the
\* next props; an overrider of the model sets className.
pipeOverrideProps(props, overriders) ==
    IF overriders = <<>> THEN props
    ELSE pipeOverrideProps([props EXCEPT !.className = Head(overriders)],
                           Tail(overriders))

\* React escapes the text it renders.
EscapeAtom(a) ==
    CASE a = "<" -> "&lt;" [] a = ">" -> "&gt;" [] a = "\"" -> "&quot;"
      [] a = "&" -> "&amp;" [] OTHER -> a

EscapeHtml(s) == [i \in 1..Len(s) |-> EscapeAtom(s[i])]

EntityAtoms == {"&lt;", "&gt;", "&quot;", "&amp;"}

\* A class attribute of the classes a component has and the className it is given.
ClassAttr(own, className) ==
    IF own = <<>> /\ className = <<>> THEN <<>>
    ELSE IF own = <<>> THEN Attr("class", className)
    ELSE IF className = <<>> THEN Attr("class", own)
    ELSE Attr("class", own \o <<" ">> \o className)

Tagged(tag, attrs, children) ==
    <<"<", tag>> \o attrs \o <<">">> \o children \o <<"<", "/", tag, ">">>

\* renderToStaticMarkup(createElementWithSlate({children:
\*   plugin.serialize?.element?.(props) ?? plugin.renderElement?.(editor)(props)}))
RenderElement(plugin, props) ==
    Tagged(plugin.element,
           Attr("data-slate-node", <<"element">>) \o plugin.attrs
             \o ClassAttr(plugin.classes, props.className),
           EscapeHtml(props.children))

\* Whether the plugin's leaf render wraps this leaf; when it does not, it
\* returns props.children itself.
Decorates(plugin, leaf) == HasLeaf(plugin) /\ plugin.leaf \in leaf.marks

\* renderToStaticMarkup(createElementWithSlate({children:
\*   plugin.serialize?.leaf?.(props) ?? plugin.renderLeaf?.(editor)(props)}))
RenderLeaf(plugin, props) ==
    IF Decorates(plugin, props.leaf)
    THEN Tagged(plugin.leafTag,
                Attr("data-slate-leaf", <<"true">>)
                  \o ClassAttr(plugin.classes, props.className),
                EscapeHtml(props.children))
    ELSE EscapeHtml(props.children)

(***************************************************************************)
(* getNode                                                                 *)
(***************************************************************************)
\* `<div>${children}</div>`
DivWrap(children) == <<"<", "div", ">">> \o children \o <<"<", "/", "div", ">">>

\* html: string | undefined, with the keys of the plugins whose element render
\* the scan has invoked
NoHtml == [defined |-> FALSE, v |-> <<>>, rendered |-> <<>>]

RECURSIVE ScanPlugins_StopAtNonOwner(_, _, _, _)
\* The scan as it would be if the callback returned true after the fallback:
\* the first capable plugin decides, owner or not.
ScanPlugins_StopAtNonOwner(ps, elementProps, preserve, htmlSoFar) ==
    IF ps = <<>> THEN htmlSoFar
    ELSE LET plugin == Head(ps)
         IN  IF ~HasElement(plugin)
             THEN ScanPlugins_StopAtNonOwner(Tail(ps), elementProps, preserve,
                                             htmlSoFar)
             ELSE IF ~OwnsType(plugin, elementProps.element.type)
             THEN [htmlSoFar EXCEPT !.defined = TRUE,
                                    !.v = DivWrap(elementProps.children)]
             ELSE [defined  |-> TRUE,
                   v        |-> stripClassNames(RenderElement(plugin, elementProps),
                                                preserve),
                   rendered |-> Append(htmlSoFar.rendered, plugin.key)]

RECURSIVE ScanPlugins_NoFallback(_, _, _, _)
\* The scan as it would be without the assignment of the <div> fallback.
ScanPlugins_NoFallback(ps, elementProps, preserve, htmlSoFar) ==
    IF ps = <<>> THEN htmlSoFar
    ELSE LET plugin == Head(ps)
         IN  IF ~HasElement(plugin) \/ ~OwnsType(plugin, elementProps.element.type)
             THEN ScanPlugins_NoFallback(Tail(ps), elementProps, preserve,
                                         htmlSoFar)
             ELSE [defined  |-> TRUE,
                   v        |-> stripClassNames(RenderElement(plugin, elementProps),
                                                preserve),
                   rendered |-> Append(htmlSoFar.rendered, plugin.key)]

RECURSIVE ScanPlugins(_, _, _, _)
\* plugins.some((plugin) => { ... }): the callback returns false to go on to
\* the next plugin and true to stop.
ScanPlugins(ps, elementProps, preserve, htmlSoFar) ==
    IF ps = <<>> THEN htmlSoFar
    ELSE LET plugin == Head(ps)
         IN  IF ~HasElement(plugin)
             THEN ScanPlugins(Tail(ps), elementProps, preserve, htmlSoFar)
             ELSE IF ~OwnsType(plugin, elementProps.element.type)
             THEN ScanPlugins(Tail(ps), elementProps, preserve,
                              [htmlSoFar EXCEPT !.defined = TRUE,
                                                !.v = DivWrap(elementProps.children)])
             ELSE [defined  |-> TRUE,
                   v        |-> stripClassNames(RenderElement(plugin, elementProps),
                                                preserve),
                   rendered |-> Append(htmlSoFar.rendered, plugin.key)]

\* getNode as it would be without the early return for a missing type.
getNode_NoTypeCheck(ps, elementProps, preserve) ==
    ScanPlugins(ps, pipeOverrideProps(elementProps, Overriders(ps)),
                preserve, NoHtml)

getNode(ps, elementProps, preserve) ==
    IF elementProps.element.type = ""
    THEN [defined |-> TRUE, v |-> DivWrap(elementProps.children), rendered |-> <<>>]
    ELSE ScanPlugins(ps, pipeOverrideProps(elementProps, Overriders(ps)),
                     preserve, NoHtml)

(***************************************************************************)
(* getLeaf                                                                 *)
(***************************************************************************)
\* What an uncaught URIError of decodeURIComponent leaves as the result.
Thrown == "URIError"

DecodeOrThrow(s) ==
    LET d == decodeURIComponent(s)
    IN  IF d.ok THEN d.v ELSE <<Thrown>>

\* The step as it would be without the decodeURIComponent around the render.
LeafStep_NoDecode(plugin, acc, children, overriders, preserve) ==
    IF ~HasLeaf(plugin) THEN acc
    ELSE IF ~Decorates(plugin, acc.leafProps.leaf)
            /\ acc.leafProps.children = children
    THEN acc
    ELSE LET props == [pipeOverrideProps(acc.leafProps, overriders)
                         EXCEPT !.children = encodeURIComponent(acc.res)]
         IN  [res       |-> stripClassNames(RenderLeaf(plugin, props), preserve),
              leafProps |-> props]

\* One step of the reduce: the accumulator `res` and the closure variable
\* leafProps after the callback has run for `plugin`.
LeafStep(plugin, acc, children, overriders, preserve) ==
    IF ~HasLeaf(plugin) THEN acc
    ELSE IF ~Decorates(plugin, acc.leafProps.leaf)
            /\ acc.leafProps.children = children
    THEN acc
    ELSE LET props == [pipeOverrideProps(acc.leafProps, overriders)
                         EXCEPT !.children = encodeURIComponent(acc.res)]
         IN  [res       |-> stripClassNames(DecodeOrThrow(RenderLeaf(plugin, props)),
                                            preserve),
              leafProps |-> props]

RECURSIVE LeafReduce_Right(_, _, _, _, _)
\* The fold as plugins.reduceRight would run it: last plugin first.
LeafReduce_Right(ps, acc, children, overriders, preserve) ==
    IF ps = <<>> THEN acc
    ELSE LeafReduce_Right(SubSeq(ps, 1, Len(ps) - 1),
                          LeafStep(ps[Len(ps)], acc, children, overriders, preserve),
                          children, overriders, preserve)

RECURSIVE LeafReduce(_, _, _, _, _)
\* plugins.reduce((result, plugin) => ..., children)
LeafReduce(ps, acc, children, overriders, preserve) ==
    IF ps = <<>> THEN acc
    ELSE LeafReduce(Tail(ps),
                    LeafStep(Head(ps), acc, children, overriders, preserve),
                    children, overriders, preserve)

getLeaf(ps, leafProps, preserve) ==
    LeafReduce(ps, [res |-> leafProps.children, leafProps |-> leafProps],
               leafProps.children, Overriders(ps), preserve).res

\* The accumulator of the reduce after each plugin of ps, in order.
LeafAccumulators(ps, leafProps, preserve) ==
    [i \in 1..Len(ps) |->
       LeafReduce(SubSeq(ps, 1, i),
                  [res |-> leafProps.children, leafProps |-> leafProps],
                  leafProps.children, Overriders(ps), preserve).res]

\* The leafProps serializeHTMLFromNodes builds for a text node.
LeafPropsOf(node) ==
    [leaf      |-> node,
     children  |-> IF isEncoded(node.text) THEN node.text
                   ELSE encodeURIComponent(node.text),
     className |-> <<>>]

\* The elementProps serializeHTMLFromNodes builds for an element.
ElementPropsOf(node, serializedChildren) ==
    [element   |-> node,
     children  |-> encodeURIComponent(serializedChildren),
     className |-> <<>>]

(***************************************************************************)
(* serializeHTMLFromNodes                                                  *)
(***************************************************************************)
\* The three passes after the join.
PostProcess(joined, stripData, stripWs) ==
    LET decoded  == IF isEncoded(joined) THEN decodeURIComponent(joined).v
                    ELSE joined
        trimmed  == IF stripWs THEN trimWhitespace(decoded) ELSE decoded
    IN  IF stripData THEN stripSlateDataAttributes(trimmed) ELSE trimmed

\* stripDataAttributes = true when the caller leaves the option out
DefaultStripDataAttributes == TRUE

\* The option as it would be if the recursive call passed it down.
InnerStripDataAttributes_PassedDown(stripData) == stripData

\* The stripDataAttributes a recursive call runs with: the call for an
\* element's children passes plugins, nodes, preserveClassNames and
\* stripWhitespace only.
InnerStripDataAttributes(stripData) == DefaultStripDataAttributes

RECURSIVE Serialize(_, _, _, _, _, _)
\* One call of serializeHTMLFromNodes at recursion depth `depth`:
\*   out       the string it returns
\*   calls     a record per call of serializeHTMLFromNodes made, this one last
\*   renders   a record per element visited, with the plugins that rendered it
Serialize(ns, ps, stripData, stripWs, preserve, depth) ==
    LET RECURSIVE Fragments(_)
        Fragments(rest) ==
            IF rest = <<>> THEN [frags |-> <<>>, calls |-> <<>>, renders |-> <<>>]
            ELSE LET node  == Head(rest)
                     after == Fragments(Tail(rest))
                 IN  IF IsText(node)
                     THEN [after EXCEPT
                             !.frags = <<getLeaf(ps, LeafPropsOf(node), preserve)>>
                                         \o after.frags]
                     ELSE LET inner == Serialize(node.children, ps,
                                                 InnerStripDataAttributes(stripData),
                                                 stripWs, preserve, depth + 1)
                              got   == getNode(ps, ElementPropsOf(node, inner.out),
                                               preserve)
                          IN  [frags   |-> <<IF got.defined THEN got.v ELSE <<>>>>
                                             \o after.frags,
                               calls   |-> inner.calls \o after.calls,
                               renders |-> inner.renders
                                             \o <<[type |-> node.type,
                                                   defined |-> got.defined,
                                                   by |-> got.rendered]>>
                                             \o after.renders]
        all    == Fragments(ns)
        joined == Concat(all.frags)
        out    == PostProcess(joined, stripData, stripWs)
    IN  [out     |-> out,
         calls   |-> Append(all.calls,
                            [depth |-> depth, joined |-> joined, out |-> out]),
         renders |-> all.renders]

serializeHTMLFromNodes(ns, ps, stripData, stripWs, preserve) ==
    Serialize(ns, ps, stripData, stripWs, preserve, 0)

(***************************************************************************)
(* Inputs                                                                  *)
(***************************************************************************)
MaxPlugins == 2

MaxTextLen == 3

MaxDepth == 2

MaxClassLen == 3

SeqsUpTo(S, n) == UNION {[1..k -> S] : k \in 0..n}

\* Registries of at most n plugins of `catalog`, each registered once.
Registries(catalog, n) ==
    {r \in SeqsUpTo(catalog, n) : \A i, j \in 1..Len(r) : r[i] = r[j] => i = j}

TextAtoms == {"hi", "%", "2", "5"}

Texts == SeqsUpTo(TextAtoms, MaxTextLen)

Types == {"", "p", "td", "custom-x"}

None == <<>>

----------------------------------------------------------------------------
\* Element dispatch: one element around one leaf, under every registry.
NodeLeaves ==
    {TextNode(t, m) : t \in {<<"hi">>, <<"a">>, <<"%">>, <<"hi", "\n">>},
                      m \in {{}, {"bold"}}}

NodeInputs == {<<ElementNode(t, <<l>>)>> : t \in Types, l \in NodeLeaves}

InitNode ==
    /\ pc = "start"
    /\ plugins \in Registries(Catalog \ {Italic}, MaxPlugins)
    /\ nodes \in NodeInputs
    /\ stripDataAttributes \in BOOLEAN
    /\ stripWhitespace \in BOOLEAN
    /\ preserveClassNames = Undefined
    /\ result = None /\ calls = <<>> /\ renders = <<>> /\ parts = <<>>
    /\ leafResult = None /\ html = None /\ filteredHtml = None

\* Trees: leaves of every text, alone, in pairs, and under chains of elements.
TreeLeaves == {TextNode(t, m) : t \in Texts, m \in {{}, {"bold"}}}

ChainLeaves ==
    {TextNode(t, m) : t \in {<<"hi">>, <<"%">>, <<"%", "2", "5">>},
                      m \in {{}, {"bold"}}}

SiblingLeaves == {TextNode(t, {}) : t \in {<<"hi">>, <<"%">>}}

RECURSIVE Chains(_)
\* A leaf under d nested elements.
Chains(d) ==
    IF d = 0 THEN ChainLeaves
    ELSE {ElementNode(t, <<c>>) : t \in Types \ {"custom-x"}, c \in Chains(d - 1)}

\* Two text nodes whose texts, side by side, read as a data attribute.
AttrLikeSiblings ==
    <<TextNode(<<" ", "data-testid", "=", "\"">>, {}), TextNode(<<"x", "\"">>, {})>>

TreeInputs ==
    {<<l>> : l \in TreeLeaves}
      \cup {<<n>> : n \in UNION {Chains(d) : d \in 1..MaxDepth}}
      \cup {<<n, l>> : n \in Chains(0) \cup Chains(1), l \in SiblingLeaves}
      \cup {AttrLikeSiblings}

Init ==
    /\ pc = "start"
    /\ plugins \in Registries({Paragraph, Cell, Bold}, MaxPlugins)
    /\ nodes \in TreeInputs
    /\ stripDataAttributes \in BOOLEAN
    /\ stripWhitespace \in BOOLEAN
    /\ preserveClassNames = Undefined
    /\ result = None /\ calls = <<>> /\ renders = <<>> /\ parts = <<>>
    /\ leafResult = None /\ html = None /\ filteredHtml = None

\* The call of serializeHTMLFromNodes on the whole input.
SerializeNodes ==
    /\ pc = "start"
    /\ LET r == serializeHTMLFromNodes(nodes, plugins, stripDataAttributes,
                                       stripWhitespace, preserveClassNames)
       IN  /\ result' = r.out
           /\ calls' = r.calls
           /\ renders' = r.renders
    /\ pc' = "done"
    /\ UNCHANGED <<plugins, nodes, stripDataAttributes, stripWhitespace,
                   preserveClassNames, parts, leafResult, html, filteredHtml>>

\* The calls of serializeHTMLFromNodes on each top-level node alone, with the
\* same options.
SerializeEach ==
    /\ pc = "done"
    /\ parts' = [i \in 1..Len(nodes) |->
                   serializeHTMLFromNodes(<<nodes[i]>>, plugins,
                                          stripDataAttributes, stripWhitespace,
                                          preserveClassNames).out]
    /\ pc' = "compared"
    /\ UNCHANGED <<plugins, nodes, stripDataAttributes, stripWhitespace,
                   preserveClassNames, result, calls, renders, leafResult, html,
                   filteredHtml>>

Next == SerializeNodes \/ SerializeEach

Spec == Init /\ [][Next]_vars

NextNode == SerializeNodes

SpecNode == InitNode /\ [][NextNode]_vars

----------------------------------------------------------------------------
\* getLeaf on one text node.
LeafInputs ==
    {<<TextNode(t, m)>> : t \in Texts, m \in SUBSET {"bold", "italic"}}

InitLeaf ==
    /\ pc = "start"
    /\ plugins \in Registries({Bold, Italic, Align, Paragraph}, MaxPlugins)
    /\ nodes \in LeafInputs
    /\ stripDataAttributes = TRUE
    /\ stripWhitespace = TRUE
    /\ preserveClassNames \in {Undefined, Given(<<<<"foo">>>>)}
    /\ result = None /\ calls = <<>> /\ renders = <<>> /\ parts = <<>>
    /\ leafResult = None /\ html = None /\ filteredHtml = None

\* The call of getLeaf that serializeHTMLFromNodes makes for a text node.
GetLeaf ==
    /\ pc = "start"
    /\ leafResult' = getLeaf(plugins, LeafPropsOf(nodes[1]), preserveClassNames)
    /\ parts' = LeafAccumulators(plugins, LeafPropsOf(nodes[1]), preserveClassNames)
    /\ pc' = "done"
    /\ UNCHANGED <<plugins, nodes, stripDataAttributes, stripWhitespace,
                   preserveClassNames, result, calls, renders, html, filteredHtml>>

NextLeaf == GetLeaf

SpecLeaf == InitLeaf /\ [][NextLeaf]_vars

----------------------------------------------------------------------------
\* stripClassNames on a fragment with one class attribute.
ClassAtoms == {"slate-", "bold", "foo", " "}

ClassValues == SeqsUpTo(ClassAtoms, MaxClassLen)

Fragment(value) ==
    Tagged("div", Attr("data-slate-node", <<"element">>) \o Attr("class", value),
           <<"hi">>)

InitClass ==
    /\ pc = "start"
    /\ html \in {Fragment(v) : v \in ClassValues}
    /\ preserveClassNames \in
         {Undefined, Given(<<<<"foo">>>>), Given(<<<<"slate-">>, <<"foo">>>>)}
    /\ plugins = <<>> /\ nodes = <<>>
    /\ stripDataAttributes = TRUE /\ stripWhitespace = TRUE
    /\ result = None /\ calls = <<>> /\ renders = <<>> /\ parts = <<>>
    /\ leafResult = None /\ filteredHtml = None

StripClassNames ==
    /\ pc = "start"
    /\ filteredHtml' = stripClassNames(html, preserveClassNames)
    /\ pc' = "done"
    /\ UNCHANGED <<plugins, nodes, stripDataAttributes, stripWhitespace,
                   preserveClassNames, result, calls, renders, parts, leafResult,
                   html>>

NextClass == StripClassNames

SpecClass == InitClass /\ [][NextClass]_vars

(***************************************************************************)
(* The model stays inside what it computes: no decoding it cannot compute, *)
(* no URIError out of getLeaf, and no text React would have escaped (the   *)
(* children handed to a render are always percent-encoded).                *)
(***************************************************************************)
AtomsOf(s) == {s[i] : i \in 1..Len(s)}

OutsideModel == {Unmodelled, Thrown} \cup EntityAtoms

ModelClosed ==
    /\ OutsideModel \cap AtomsOf(result) = {}
    /\ OutsideModel \cap AtomsOf(leafResult) = {}
    /\ \A i \in 1..Len(calls) :
         OutsideModel \cap (AtomsOf(calls[i].joined) \cup AtomsOf(calls[i].out)) = {}

(***************************************************************************)
(* Properties of the element dispatch (SpecNode)                           *)
(***************************************************************************)
Done == pc = "done"

\* The one element of a SpecNode input, and its one leaf.
TheElement == nodes[1]

TheLeaf == nodes[1].children[1]

DivAround(text) == <<"<", "div", ">">> \o text \o <<"<", "/", "div", ">">>

\* The positions of the plugins that have serialize.element or renderElement
Capable == {i \in 1..Len(plugins) : HasElement(plugins[i])}

\* ... and among them those that declare ownership of the element's type
Owners == {i \in Capable : OwnsType(plugins[i], TheElement.type)}

FirstOwner == CHOOSE i \in Owners : \A j \in Owners : i <= j

DataAttrNames == SlateDataNames \cup {"data-testid"}

\* How many data-slate-node, -type, -leaf and data-testid attributes s holds.
DataAttrCount(s) == Cardinality({i \in 1..Len(s) : s[i] \in DataAttrNames})

CustomXHi ==
    /\ Done
    /\ TheElement.type = "custom-x"
    /\ TheLeaf = TextNode(<<"hi">>, {})

\* C1 (as claimed): with no plugin owning the type, an element of that type
\* around the text leaf "hi" serializes to <div>hi</div> under every registry,
\* the empty one and those without any element renderer included.
C1_AlwaysDiv == CustomXHi => result = DivAround(<<"hi">>)

\* C1 (amended): with no plugin owning the type, the element serializes to
\* <div>hi</div> exactly when some plugin of the registry has serialize.element
\* or renderElement; when none has (the empty registry included) getNode returns
\* undefined and the element contributes the empty string.
C1_DivWhenSomePluginCapable ==
    CustomXHi => result = (IF Capable # {} THEN DivAround(<<"hi">>) ELSE <<>>)

C1_Witness == CustomXHi /\ Capable # {} /\ Len(plugins) = 2

\* C8: an element without a type around the leaf "a" serializes to <div>a</div>
\* whatever the registry, and no plugin's element render is invoked for it.
C8_UntypedIsDiv ==
    (Done /\ TheElement.type = "" /\ TheLeaf = TextNode(<<"a">>, {}))
      => /\ result = DivAround(<<"a">>)
         /\ renders[1].by = <<>>

C8_Witness ==
    /\ Done /\ TheElement.type = "" /\ TheLeaf = TextNode(<<"a">>, {})
    /\ plugins = <<Align, Section>>

\* C9: a typed element is rendered by the first plugin, in registry order, that
\* has an element renderer and owns the type, and by no other; a capable plugin
\* that does not own the type, standing earlier, does not stop the scan; the
\* <div> fallback is the result only when no capable plugin owns the type.
C9_FirstCapableOwnerRenders ==
    (Done /\ TheElement.type # "")
      => /\ Owners # {}
              => /\ renders[1].by = <<plugins[FirstOwner].key>>
                 /\ StartsWith(result, <<"<", plugins[FirstOwner].element>>)
         /\ Owners = {} => renders[1].by = <<>>
         /\ StartsWith(result, <<"<", "div">>) => Owners = {}

C9_Witness ==
    /\ Done /\ TheElement.type = "p"
    /\ plugins = <<Cell, Paragraph>>
    /\ renders[1].by = <<"paragraph">>

\* The calls of serializeHTMLFromNodes made for an element's children.
InnerCalls == {i \in 1..Len(calls) : calls[i].depth > 0}

RenderedDataAttrs ==
    IF ~renders[1].defined THEN 0
    ELSE (IF renders[1].by = <<>> THEN 0
          ELSE 1 + DataAttrCount(plugins[FirstOwner].attrs))
           + Cardinality({i \in 1..Len(plugins) : Decorates(plugins[i], TheLeaf)})

\* C2 (as claimed): with stripDataAttributes the output holds none of the data
\* attributes; without it, it holds every one of the rendered fragments, those
\* of nested nodes included.
C2_StrippedOrPreserved ==
    Done => DataAttrCount(result) =
              (IF stripDataAttributes THEN 0 ELSE RenderedDataAttrs)

(***************************************************************************)
(* Properties of getLeaf (SpecLeaf)                                        *)
(***************************************************************************)
\* The text node handed to getLeaf, and the children it starts from.
LeafNode == nodes[1]

LeafChildren == LeafPropsOf(LeafNode).children

\* getLeaf's accumulator before plugin i runs.
AccBefore(i) == IF i = 1 THEN LeafChildren ELSE parts[i - 1]

\* C7: a plugin whose leaf render returns the children it was given leaves the
\* accumulator as it found it, wherever it stands in the registry.
C7_NoDecorationNoChange ==
    Done => \A i \in 1..Len(plugins) :
              ~Decorates(plugins[i], LeafNode) => parts[i] = AccBefore(i)

\* A leaf plugin that does not decorate stands after one that has wrapped the
\* leaf, and the children it is given differ from the original children.
C7_Witness ==
    /\ Done /\ Len(plugins) = 2
    /\ Decorates(plugins[1], LeafNode)
    /\ HasLeaf(plugins[2]) /\ ~Decorates(plugins[2], LeafNode)
    /\ encodeURIComponent(LeafChildren) # LeafChildren
    /\ parts[1] # LeafChildren

\* The className the override pipeline leaves in the props.
OverriddenClass ==
    LET o == Overriders(plugins) IN IF o = <<>> THEN <<>> ELSE o[Len(o)]

RECURSIVE WrappedBy(_)
\* The children wrapped by the decorating plugins of ps, the last one outermost.
WrappedBy(ps) ==
    IF ps = <<>> THEN LeafChildren
    ELSE LET p     == ps[Len(ps)]
             inner == WrappedBy(SubSeq(ps, 1, Len(ps) - 1))
         IN  IF ~Decorates(p, LeafNode) THEN inner
             ELSE stripClassNames(
                    Tagged(p.leafTag,
                           Attr("data-slate-leaf", <<"true">>)
                             \o ClassAttr(p.classes, OverriddenClass),
                           inner),
                    preserveClassNames)

\* C10: the fragment of a leaf is its percent-encoded text wrapped by each
\* decorating plugin in registry order, the first-listed innermost; plugins
\* that do not decorate contribute nothing.
C10_FoldLeft == Done => leafResult = WrappedBy(plugins)

C10_Witness ==
    /\ Done /\ plugins = <<Bold, Italic>>
    /\ LeafNode.marks = {"bold", "italic"}
    /\ LeafNode.text = <<"hi", "%">>
    /\ StartsWith(leafResult, <<"<", "em">>)

(***************************************************************************)
(* Properties of stripClassNames (SpecClass)                               *)
(***************************************************************************)
RECURSIVE Tokens(_)
\* The whitespace-separated tokens of a class attribute's value.
Tokens(value) ==
    IF value = <<>> THEN <<>>
    ELSE IF Head(value) \in SpaceAtoms THEN Tokens(Tail(value))
    ELSE LET stop == FirstIn(value, 1, SpaceAtoms)
             end  == IF stop = 0 THEN Len(value) ELSE stop - 1
         IN  <<SubSeq(value, 1, end)>> \o Tokens(Drop(value, end + 1))

PreserveList ==
    IF preserveClassNames.given THEN preserveClassNames.list ELSE <<<<"slate-">>>>

\* The tokens that start with one of the preserve prefixes, in their order.
KeptTokens(value) ==
    SelectSeq(Tokens(value),
              LAMBDA t : \E k \in 1..Len(PreserveList) : StartsWith(t, PreserveList[k]))

\* Where the class attribute of the fragment starts, and its value.
ClassAt == FirstIn(html, 1, {"class"})

ClassEnd == FirstIn(html, ClassAt + 3, {"\""})

ClassValue == SubSeq(html, ClassAt + 3, ClassEnd - 1)

\* C3 (as claimed): the class attribute comes out holding exactly the tokens
\* that start with a preserve prefix, whole and in order, joined by one space;
\* it is removed when there is none; the text around it is unchanged.
C3_KeepsWholeMatchingTokens ==
    Done => filteredHtml =
              SubSeq(html, 1, ClassAt - 1)
                \o (IF KeptTokens(ClassValue) = <<>> THEN <<>>
                    ELSE <<"class", "=", "\"">>
                           \o JoinWith(KeptTokens(ClassValue), <<" ">>) \o <<"\"">>)
                \o Drop(html, ClassEnd + 1)

(***************************************************************************)
(* Properties of the tree walk (Spec)                                      *)
(***************************************************************************)
\* C5 (as claimed): serializing sibling nodes together gives the concatenation
\* of serializing each alone, with the same options.
C5_ConcatenationOfSiblings == pc = "compared" => result = Concat(parts)

RECURSIVE TextOutsideTags(_)
\* The atoms of s that stand outside every <...> tag.
TextOutsideTags(s) ==
    IF s = <<>> THEN <<>>
    ELSE IF Head(s) = "<"
    THEN LET close == FirstIn(s, 1, {">"})
         IN  IF close = 0 THEN <<>> ELSE TextOutsideTags(Drop(s, close + 1))
    ELSE <<Head(s)>> \o TextOutsideTags(Tail(s))

RECURSIVE OnlyLeaf(_)
\* The leaf of a chain of elements.
OnlyLeaf(node) == IF IsText(node) THEN node ELSE OnlyLeaf(node.children[1])

\* Every element of the walk produced a fragment.
AllDefined == \A i \in 1..Len(renders) : renders[i].defined

\* C6 (as claimed): the text the output holds for a leaf is the leaf's text,
\* or that text percent-decoded once, at any depth and under any wrapping.
C6_DecodedAtMostOnce ==
    (Done /\ Len(nodes) = 1 /\ AllDefined)
      => LET text == OnlyLeaf(nodes[1]).text
             d    == decodeURIComponent(text)
         IN  \/ TextOutsideTags(result) = text
             \/ d.ok /\ TextOutsideTags(result) = d.v

====
